---- MODULE Spec2Model ----
(***************************************************************************)
(* Model of llvm/lib/Transforms/Instrumentation/SanitizerBinaryMetadata.cpp *)
(*                                                                         *)
(* The pass walks the functions of a module, classifies every instruction  *)
(* (atomics, use-after-return), attaches !pcsections metadata to           *)
(* instructions and functions, collects the used metadata kinds in a       *)
(* SetVector and finally emits one constructor/destructor pair per kind.   *)
(***************************************************************************)
EXTENDS Naturals, Sequences, FiniteSets

VARIABLES
  Options,          \* SanitizerBinaryMetadata::Options (after transformOptionsFromCl)
  Mod,              \* the functions of the module, in module order
  CodeModel,        \* Mod.getCodeModel(): "none" when not set
  MIS,              \* MetadataInfoSet of run(), a SetVector
  pc,               \* position inside run()
  fi,               \* index of the function the loop of run() is at
  ii,               \* index of the instruction the loop of runOn(F) is at
  FeatureMask,      \* local of runOn(F)
  RequiresCovered,  \* local of runOn(F)
  InstMD,           \* MD_pcsections attached to the instructions
  FuncMD,           \* MD_pcsections attached to the functions
  mi,               \* index into MIS of the emission loop of run()
  VersionConst,     \* the i32 version constant created by run()
  Markers,          \* section markers created by getSectionMarker
  Created,          \* functions created by createSanitizerCtorAndInitFunctions
  GlobalCtors,      \* llvm.global_ctors
  GlobalDtors,      \* llvm.global_dtors
  Result            \* what run() returned: "none" while running

vars == <<Options, Mod, CodeModel, MIS, pc, fi, ii, FeatureMask,
          RequiresCovered, InstMD, FuncMD, mi, VersionConst, Markers,
          Created, GlobalCtors, GlobalDtors, Result>>

----------------------------------------------------------------------------
(* Bounds of the model.                                                    *)

\* most functions of a module
MaxFuncs == 2
\* most instructions of a module, over all its functions
MaxModInsts == 2
\* most instructions of the function of a single-function module
MaxFnInsts == 2
\* most uses reachable from one alloca (the nodes of its use forest)
MaxNodes == 3

----------------------------------------------------------------------------
(* Constants of the program.                                               *)

kVersionBase == 1
kVersionPtrSizeRel == 65536
kCtorDtorPriority == 2

\* llvm/Transforms/Instrumentation/SanitizerBinaryMetadata.h
kSanitizerBinaryMetadataNone == 0
kSanitizerBinaryMetadataAtomics == 1
kSanitizerBinaryMetadataUAR == 2
kSanitizerBinaryMetadataCoveredSection == "sanmd_covered"
kSanitizerBinaryMetadataAtomicsSection == "sanmd_atomics"

\* MetadataInfo::Covered
Covered ==
  [FunctionPrefix |-> "__sanitizer_metadata_covered",
   SectionSuffix  |-> kSanitizerBinaryMetadataCoveredSection,
   FeatureMask    |-> kSanitizerBinaryMetadataNone]

\* MetadataInfo::Atomics
Atomics ==
  [FunctionPrefix |-> "__sanitizer_metadata_atomics",
   SectionSuffix  |-> kSanitizerBinaryMetadataAtomicsSection,
   FeatureMask    |-> kSanitizerBinaryMetadataAtomics]

----------------------------------------------------------------------------
(* uint32_t bit operations, on naturals.                                   *)

RECURSIVE BitAnd(_, _)
BitAnd(a, b) ==
  IF a = 0 \/ b = 0 THEN 0
  ELSE (a % 2) * (b % 2) + 2 * BitAnd(a \div 2, b \div 2)

RECURSIVE BitOr(_, _)
BitOr(a, b) ==
  IF a = 0 THEN b
  ELSE IF b = 0 THEN a
  ELSE (IF a % 2 = 1 \/ b % 2 = 1 THEN 1 ELSE 0) + 2 * BitOr(a \div 2, b \div 2)

\* a & ~b: the bits of a that are not bits of b
BitClear(a, b) == a - BitAnd(a, b)

----------------------------------------------------------------------------
(* Names are sequences of characters, so that StringRef::startswith is     *)
(* computed on the characters.                                             *)

startswith(name, prefix) ==
  /\ Len(name) >= Len(prefix)
  /\ SubSeq(name, 1, Len(prefix)) = prefix

PrefixAsan  == <<"_", "_", "a", "s", "a", "n", "_">>
PrefixHwsan == <<"_", "_", "h", "w", "s", "a", "n", "_">>
PrefixUbsan == <<"_", "_", "u", "b", "s", "a", "n", "_">>
PrefixMsan  == <<"_", "_", "m", "s", "a", "n", "_">>
PrefixTsan  == <<"_", "_", "t", "s", "a", "n", "_">>

\* CallInst::getCalledFunction() is null for an indirect call
NullCallee ==
  [known |-> FALSE, isIntrinsic |-> FALSE, doesNotReturn |-> FALSE, name |-> <<>>]

KnownCallee(intr, noret, nm) ==
  [known |-> TRUE, isIntrinsic |-> intr, doesNotReturn |-> noret, name |-> nm]

isUARSafeCall(F) ==
  F.known /\ (\/ F.isIntrinsic
              \/ F.doesNotReturn
              \/ startswith(F.name, PrefixAsan)
              \/ startswith(F.name, PrefixHwsan)
              \/ startswith(F.name, PrefixUbsan)
              \/ startswith(F.name, PrefixMsan)
              \/ startswith(F.name, PrefixTsan))

----------------------------------------------------------------------------
(* A use of a value V is a record: kind is the instruction class of the    *)
(* user; a store says which of its operands are V; a getelementptr or a    *)
(* bitcast carries its own users.                                          *)

Use(k, c, v, p, us) ==
  [kind |-> k, callee |-> c, valIsV |-> v, ptrIsV |-> p, users |-> us]

RECURSIVE hasUseAfterReturnUnsafeUses_Shallow(_)
\* a variant that does not descend into getelementptr and bitcast users
hasUseAfterReturnUnsafeUses_Shallow(users) ==
  IF users = <<>> THEN FALSE
  ELSE LET U == Head(users)
           rest == Tail(users)
       IN IF U.kind \in {"lifetime", "droppable", "load", "getelementptr", "bitcast"}
            THEN hasUseAfterReturnUnsafeUses_Shallow(rest)
          ELSE IF U.kind = "call" /\ isUARSafeCall(U.callee)
            THEN hasUseAfterReturnUnsafeUses_Shallow(rest)
          ELSE IF U.kind = "store" /\ U.ptrIsV
            THEN hasUseAfterReturnUnsafeUses_Shallow(rest)
          ELSE TRUE

RECURSIVE hasUseAfterReturnUnsafeUses(_)
hasUseAfterReturnUnsafeUses(users) ==
  IF users = <<>> THEN FALSE
  ELSE LET U == Head(users)
           rest == Tail(users)
       IN IF U.kind \in {"lifetime", "droppable"}
            THEN hasUseAfterReturnUnsafeUses(rest)
          ELSE IF U.kind = "call" /\ isUARSafeCall(U.callee)
            THEN hasUseAfterReturnUnsafeUses(rest)
          ELSE IF U.kind = "load"
            THEN hasUseAfterReturnUnsafeUses(rest)
          ELSE IF U.kind = "store" /\ U.ptrIsV
            THEN hasUseAfterReturnUnsafeUses(rest)
          ELSE IF U.kind = "getelementptr" /\ ~hasUseAfterReturnUnsafeUses(U.users)
            THEN hasUseAfterReturnUnsafeUses(rest)
          ELSE IF U.kind = "bitcast" /\ ~hasUseAfterReturnUnsafeUses(U.users)
            THEN hasUseAfterReturnUnsafeUses(rest)
          ELSE TRUE

\* An instruction: op is its class, mayRW is mayReadOrWriteMemory(), ssid is
\* getAtomicSyncScopeID() ("none": not atomic), tail and callee are those of
\* a call, users are the users of an alloca.
Inst(o, rw, s, t, c, us) ==
  [op |-> o, mayRW |-> rw, ssid |-> s, tail |-> t, callee |-> c, users |-> us]

\* a variant that takes every call of an unsafe callee for unsafe
useAfterReturnUnsafe_IgnoresTail(I) ==
  IF I.op = "alloca" THEN hasUseAfterReturnUnsafeUses(I.users)
  ELSE IF I.op = "call" THEN ~isUARSafeCall(I.callee)
  ELSE FALSE

useAfterReturnUnsafe(I) ==
  IF I.op = "alloca" THEN hasUseAfterReturnUnsafeUses(I.users)
  ELSE IF I.op = "call" THEN I.tail /\ ~isUARSafeCall(I.callee)
  ELSE FALSE

----------------------------------------------------------------------------
(* The pass.                                                               *)

\* a variant that inserts only into an empty set
SetVectorInsert_OnlyIfEmpty(S, x) == IF S = <<>> THEN <<x>> ELSE S

\* SetVector::insert of one element
SetVectorInsert(S, x) ==
  IF \E k \in 1..Len(S) : S[k] = x THEN S ELSE Append(S, x)

\* SetVector::insert(begin, end)
RECURSIVE SetVectorInsertAll(_, _)
SetVectorInsertAll(S, xs) ==
  IF xs = <<>> THEN S
  ELSE SetVectorInsertAll(SetVectorInsert(S, Head(xs)), Tail(xs))

getSectionName(SectionSuffix) == SectionSuffix

getSectionStart(SectionSuffix) == "__start_" \o SectionSuffix

\* a variant that names the end marker as the start marker
getSectionEnd_Start(SectionSuffix) == "__start_" \o SectionSuffix

getSectionEnd(SectionSuffix) == "__stop_" \o SectionSuffix

\* a GlobalVariable made by getSectionMarker
getSectionMarker(MarkerName) ==
  [name |-> MarkerName, linkage |-> "extern_weak", visibility |-> "hidden"]

\* a variant that starts every function from the empty mask
getEnabledPerInstructionFeature_None == kSanitizerBinaryMetadataNone

\* a variant that does not consult the Atomics option
getEnabledPerInstructionFeature_Always == BitOr(0, Atomics.FeatureMask)

getEnabledPerInstructionFeature ==
  IF Options.Atomics THEN BitOr(0, Atomics.FeatureMask) ELSE 0

getVersion ==
  IF CodeModel \in {"medium", "large"}
    THEN BitOr(kVersionBase, kVersionPtrSizeRel)
    ELSE kVersionBase

\* one element of MDBuilder::createPCSections
PCSection(Section, Aux) == [Section |-> Section, Aux |-> Aux]

\* the PCSections runOn(Instruction) builds from InstMetadata
RECURSIVE InstSections(_)
InstSections(InstMetadata) ==
  IF InstMetadata = <<>> THEN <<>>
  ELSE <<PCSection(getSectionName(Head(InstMetadata).SectionSuffix), <<>>)>>
         \o InstSections(Tail(InstMetadata))

\* runOn(Instruction &, ...): what it computes from I and the running mask
runOnInstruction(I, Mask) ==
  LET Mask1 == IF Options.UAR /\ BitAnd(Mask, kSanitizerBinaryMetadataUAR) = 0
                 THEN IF useAfterReturnUnsafe(I)
                        THEN BitOr(Mask, kSanitizerBinaryMetadataUAR)
                        ELSE Mask
                 ELSE Mask
      Mem == Options.Atomics /\ I.mayRW
      InstMetadata == IF Mem /\ I.ssid # "none" /\ I.ssid # "singlethread"
                        THEN <<Atomics>>
                        ELSE <<>>
  IN [FeatureMask |-> Mask1, InstMetadata |-> InstMetadata, RequiresCovered |-> Mem]

\* a variant that processes available_externally functions
SkipsFunction_NoLinkage(F) ==
  \/ F.insts = <<>>
  \/ F.disableSanitizerInstrumentation

\* the early returns of runOn(Function &, ...)
SkipsFunction(F) ==
  \/ F.insts = <<>>
  \/ F.disableSanitizerInstrumentation
  \/ F.linkage = "available_externally"

\* the condition under which runOn(Function &, ...) scans the instructions
ScansInstructions(Mask) == Mask # 0 \/ Options.UAR

\* a variant that keeps the UAR bit of variadic functions
FinalFeatureMask_Unadjusted(F, Mask) == Mask

\* the mask after the isVarArg adjustment of runOn(Function &, ...)
FinalFeatureMask(F, Mask) ==
  IF F.isVarArg THEN BitClear(Mask, kSanitizerBinaryMetadataUAR) ELSE Mask

\* a variant in which the UAR bit does not force covered metadata
FinalRequiresCovered_Unforced(Mask, Req) == Req

\* RequiresCovered after the UAR adjustment of runOn(Function &, ...)
FinalRequiresCovered(Mask, Req) ==
  IF BitAnd(Mask, kSanitizerBinaryMetadataUAR) # 0 THEN TRUE ELSE Req

\* a variant that emits covered metadata for every non-zero mask
EmitsCovered_IgnoresRequired(Mask, Req) == Options.Covered \/ Mask # 0

\* the condition under which covered metadata is emitted
EmitsCovered(Mask, Req) == Options.Covered \/ (Mask # 0 /\ Req)

----------------------------------------------------------------------------
(* Actions.                                                                *)

\* runOn(Function &, ...) returning early
SkipFunction ==
  /\ pc = "functions"
  /\ fi <= Len(Mod)
  /\ SkipsFunction(Mod[fi])
  /\ fi' = fi + 1
  /\ UNCHANGED <<Options, Mod, CodeModel, MIS, pc, ii, FeatureMask,
                 RequiresCovered, InstMD, FuncMD, mi, VersionConst, Markers,
                 Created, GlobalCtors, GlobalDtors, Result>>

\* runOn(Function &, ...) up to the scan of the instructions
EnterFunction ==
  /\ pc = "functions"
  /\ fi <= Len(Mod)
  /\ ~SkipsFunction(Mod[fi])
  /\ FeatureMask' = getEnabledPerInstructionFeature
  /\ RequiresCovered' = FALSE
  /\ ii' = 1
  /\ pc' = IF ScansInstructions(FeatureMask') THEN "scan" ELSE "aggregate"
  /\ UNCHANGED <<Options, Mod, CodeModel, MIS, fi, InstMD, FuncMD, mi,
                 VersionConst, Markers, Created, GlobalCtors, GlobalDtors,
                 Result>>

\* one iteration of the instruction loop: runOn(Instruction &, ...)
RunOnInstruction ==
  /\ pc = "scan"
  /\ ii <= Len(Mod[fi].insts)
  /\ LET r == runOnInstruction(Mod[fi].insts[ii], FeatureMask)
     IN /\ FeatureMask' = r.FeatureMask
        /\ RequiresCovered' = (RequiresCovered \/ r.RequiresCovered)
        /\ IF r.InstMetadata # <<>>
             THEN /\ MIS' = SetVectorInsertAll(MIS, r.InstMetadata)
                  /\ InstMD' = [InstMD EXCEPT ![fi][ii] = InstSections(r.InstMetadata)]
             ELSE UNCHANGED <<MIS, InstMD>>
  /\ ii' = ii + 1
  /\ pc' = IF ii = Len(Mod[fi].insts) THEN "aggregate" ELSE "scan"
  /\ UNCHANGED <<Options, Mod, CodeModel, fi, FuncMD, mi, VersionConst,
                 Markers, Created, GlobalCtors, GlobalDtors, Result>>

\* the rest of runOn(Function &, ...), after the scan
FinishFunction ==
  /\ pc = "aggregate"
  /\ LET F == Mod[fi]
         Mask == FinalFeatureMask(F, FeatureMask)
         Req == FinalRequiresCovered(Mask, RequiresCovered)
     IN /\ FeatureMask' = Mask
        /\ RequiresCovered' = Req
        /\ IF EmitsCovered(Mask, Req)
             THEN /\ MIS' = SetVectorInsert(MIS, Covered)
                  /\ FuncMD' = [FuncMD EXCEPT ![fi] =
                        <<PCSection(getSectionName(Covered.SectionSuffix), <<Mask>>)>>]
             ELSE UNCHANGED <<MIS, FuncMD>>
  /\ fi' = fi + 1
  /\ pc' = "functions"
  /\ UNCHANGED <<Options, Mod, CodeModel, ii, InstMD, mi, VersionConst,
                 Markers, Created, GlobalCtors, GlobalDtors, Result>>

\* run(): the kind set is empty after the functions
ReturnUnchanged ==
  /\ pc = "functions"
  /\ fi > Len(Mod)
  /\ MIS = <<>>
  /\ Result' = "unchanged"
  /\ pc' = "done"
  /\ UNCHANGED <<Options, Mod, CodeModel, MIS, fi, ii, FeatureMask,
                 RequiresCovered, InstMD, FuncMD, mi, VersionConst, Markers,
                 Created, GlobalCtors, GlobalDtors>>

\* run(): the types and the version constant, before the emission loop
BeginEmit ==
  /\ pc = "functions"
  /\ fi > Len(Mod)
  /\ MIS # <<>>
  /\ VersionConst' = <<getVersion>>
  /\ mi' = 1
  /\ pc' = "emit"
  /\ UNCHANGED <<Options, Mod, CodeModel, MIS, fi, ii, FeatureMask,
                 RequiresCovered, InstMD, FuncMD, Markers, Created,
                 GlobalCtors, GlobalDtors, Result>>

\* createSanitizerCtorAndInitFunctions: a function CtorName calling InitName
\* with InitArgs; run() puts it in a COMDAT of its own name (ELF has COMDAT)
CtorFunction(CtorName, InitName, InitArgs) ==
  [name |-> CtorName, calls |-> InitName, args |-> InitArgs, comdat |-> CtorName]

\* an element of llvm.global_ctors / llvm.global_dtors
CtorEntry(Fn, Priority, Data) == [fn |-> Fn, priority |-> Priority, data |-> Data]

\* one iteration of the emission loop of run()
EmitKind ==
  /\ pc = "emit"
  /\ mi <= Len(MIS)
  /\ LET MI == MIS[mi]
         Start == getSectionMarker(getSectionStart(MI.SectionSuffix))
         End == getSectionMarker(getSectionEnd(MI.SectionSuffix))
         InitArgs == <<VersionConst[1], Start.name, End.name>>
         Ctor == CtorFunction(MI.FunctionPrefix \o ".module_ctor",
                              MI.FunctionPrefix \o "_add", InitArgs)
         Dtor == CtorFunction(MI.FunctionPrefix \o ".module_dtor",
                              MI.FunctionPrefix \o "_del", InitArgs)
     IN /\ Markers' = Markers \o <<Start, End>>
        /\ Created' = Created \o <<Ctor, Dtor>>
        /\ GlobalCtors' = Append(GlobalCtors,
                                 CtorEntry(Ctor.name, kCtorDtorPriority, Ctor.name))
        /\ GlobalDtors' = Append(GlobalDtors,
                                 CtorEntry(Dtor.name, kCtorDtorPriority, Dtor.name))
  /\ mi' = mi + 1
  /\ UNCHANGED <<Options, Mod, CodeModel, MIS, pc, fi, ii, FeatureMask,
                 RequiresCovered, InstMD, FuncMD, VersionConst, Result>>

\* run(): after the emission loop
ReturnChanged ==
  /\ pc = "emit"
  /\ mi > Len(MIS)
  /\ Result' = "changed"
  /\ pc' = "done"
  /\ UNCHANGED <<Options, Mod, CodeModel, MIS, fi, ii, FeatureMask,
                 RequiresCovered, InstMD, FuncMD, mi, VersionConst, Markers,
                 Created, GlobalCtors, GlobalDtors>>

Next ==
  \/ SkipFunction
  \/ EnterFunction
  \/ RunOnInstruction
  \/ FinishFunction
  \/ ReturnUnchanged
  \/ BeginEmit
  \/ EmitKind
  \/ ReturnChanged

----------------------------------------------------------------------------
(* Inputs: callees, uses, instructions, functions, modules.                *)

NameFoo == <<"f", "o", "o">>

\* names a sanitizer prefix matches, and names it just misses
SanitizerNames ==
  {PrefixAsan \o <<"x">>, PrefixHwsan \o <<"x">>, PrefixUbsan \o <<"x">>,
   PrefixMsan \o <<"x">>, PrefixTsan \o <<"x">>}

OtherNames == {NameFoo, <<"_", "_", "a", "s", "a", "n">>, <<"_">> \o PrefixTsan}

Callees ==
  {NullCallee,
   KnownCallee(TRUE, FALSE, <<"l", "l", "v", "m", ".", "x">>),
   KnownCallee(FALSE, TRUE, NameFoo)}
  \cup {KnownCallee(FALSE, FALSE, n) : n \in SanitizerNames \cup OtherNames}

Foo == KnownCallee(FALSE, FALSE, NameFoo)

\* the callees of the calls that use an alloca
UseCallees ==
  {NullCallee, Foo,
   KnownCallee(TRUE, FALSE, <<"l", "l", "v", "m", ".", "x">>),
   KnownCallee(FALSE, TRUE, NameFoo),
   KnownCallee(FALSE, FALSE, PrefixAsan \o <<"x">>)}

Leaf(k) == Use(k, NullCallee, FALSE, FALSE, <<>>)

StoreTo == Use("store", NullCallee, FALSE, TRUE, <<>>)
StoreVal == Use("store", NullCallee, TRUE, FALSE, <<>>)
StoreSelf == Use("store", NullCallee, TRUE, TRUE, <<>>)
CallUse(c) == Use("call", c, FALSE, FALSE, <<>>)

\* the uses that are neither a getelementptr nor a bitcast
LeafUses ==
  {Leaf("lifetime"), Leaf("droppable"), Leaf("load"), Leaf("ptrtoint"),
   StoreTo, StoreVal, StoreSelf}
  \cup {CallUse(c) : c \in UseCallees}

RECURSIVE TreesOfSize(_), ForestsOfSize(_)
\* the uses with k nodes: the use itself and the uses reachable through it
TreesOfSize(k) ==
  (IF k = 1 THEN LeafUses ELSE {})
  \cup {Use(kind, NullCallee, FALSE, FALSE, us) :
          kind \in {"getelementptr", "bitcast"}, us \in ForestsOfSize(k - 1)}
\* the user lists with n nodes in all
ForestsOfSize(n) ==
  IF n = 0 THEN {<<>>}
  ELSE UNION {{<<t>> \o f : t \in TreesOfSize(k), f \in ForestsOfSize(n - k)} :
                k \in 1..n}

\* the user lists with at most n nodes
ForestsUpTo(n) == UNION {ForestsOfSize(k) : k \in 0..n}

Ret == Inst("ret", FALSE, "none", FALSE, NullCallee, <<>>)
Load(ssid) == Inst("load", TRUE, ssid, FALSE, NullCallee, <<>>)
Call(tail, callee) == Inst("call", TRUE, "none", tail, callee, <<>>)
Alloca(users) == Inst("alloca", FALSE, "none", FALSE, NullCallee, users)

Function(dis, link, va, body) ==
  [disableSanitizerInstrumentation |-> dis, linkage |-> link, isVarArg |-> va,
   insts |-> body]

Declaration == Function(FALSE, "external", FALSE, <<>>)

\* the functions with a body of k instructions of I
FunctionsOfSize(I, k) ==
  IF k = 0 THEN {Declaration}
  ELSE UNION {{Function(FALSE, "external", FALSE, b),
               Function(FALSE, "external", TRUE, b),
               Function(TRUE, "external", FALSE, b),
               Function(FALSE, "available_externally", FALSE, b)} :
                b \in [1..k -> I]}

RECURSIVE ModulesOf(_, _, _)
\* the modules of at most nf functions and at most ni instructions of I
ModulesOf(I, nf, ni) ==
  IF nf = 0 THEN {<<>>}
  ELSE {<<>>} \cup
       UNION {{<<f>> \o m : f \in FunctionsOfSize(I, k),
                            m \in ModulesOf(I, nf - 1, ni - k)} : k \in 0..ni}

\* the instructions of the modules of Spec
ModInsts == {Ret, Load("none"), Load("system"), Call(TRUE, Foo)}

\* the instructions of the single-function modules of SpecFn
FnInsts ==
  {Ret, Load("none"), Load("system"), Load("singlethread"),
   Call(FALSE, Foo), Call(FALSE, NullCallee),
   Alloca(<<Leaf("load"), StoreTo>>), Alloca(<<Leaf("load"), StoreVal>>),
   Alloca(<<Use("getelementptr", NullCallee, FALSE, FALSE, <<StoreVal>>)>>)}
  \cup {Call(TRUE, c) : c \in Callees}

AllOptions == [Covered : BOOLEAN, Atomics : BOOLEAN, UAR : BOOLEAN]

CodeModels == {"none", "large"}

Start(Modules, Opts, Models) ==
  /\ Options \in Opts
  /\ Mod \in Modules
  /\ CodeModel \in Models
  /\ MIS = <<>>
  /\ pc = "functions"
  /\ fi = 1
  /\ ii = 1
  /\ FeatureMask = 0
  /\ RequiresCovered = FALSE
  /\ InstMD = [f \in 1..Len(Mod) |-> [i \in 1..Len(Mod[f].insts) |-> <<>>]]
  /\ FuncMD = [f \in 1..Len(Mod) |-> <<>>]
  /\ mi = 1
  /\ VersionConst = <<>>
  /\ Markers = <<>>
  /\ Created = <<>>
  /\ GlobalCtors = <<>>
  /\ GlobalDtors = <<>>
  /\ Result = "none"

\* modules of several small functions
Init == Start(ModulesOf(ModInsts, MaxFuncs, MaxModInsts), AllOptions, CodeModels)

\* modules of one function
InitFn ==
  Start(UNION {{<<f>> : f \in FunctionsOfSize(FnInsts, k)} : k \in 0..MaxFnInsts},
        AllOptions, {"none"})

\* modules of one function of one alloca, with only UAR enabled
InitUses ==
  Start({<<Declaration>>}
          \cup {<<Function(FALSE, "external", FALSE, <<Alloca(us)>>)>> : us \in ForestsUpTo(MaxNodes)},
        {[Covered |-> FALSE, Atomics |-> FALSE, UAR |-> TRUE]}, {"none"})

Spec == Init /\ [][Next]_vars

SpecFn == InitFn /\ [][Next]_vars

SpecUses == InitUses /\ [][Next]_vars

TypeOK ==
  /\ pc \in {"functions", "scan", "aggregate", "emit", "done"}
  /\ Result \in {"none", "changed", "unchanged"}
  /\ FeatureMask \in 0..(kSanitizerBinaryMetadataAtomics + kSanitizerBinaryMetadataUAR)

----------------------------------------------------------------------------
(* Vocabulary of the properties.                                           *)

\* runOn(Function &, ...) has returned for function f
Done(f) == f \in 1..Len(Mod) /\ fi > f

\* function f is not one runOn(Function &, ...) returns early for
Processed(f) ==
  /\ Mod[f].insts # <<>>
  /\ ~Mod[f].disableSanitizerInstrumentation
  /\ Mod[f].linkage # "available_externally"

HasCoverageRecord(f) ==
  /\ Len(FuncMD[f]) = 1
  /\ FuncMD[f][1].Section = "sanmd_covered"
  /\ Len(FuncMD[f][1].Aux) = 1

\* the feature mask the Coverage record of f carries
CoverageMask(f) == FuncMD[f][1].Aux[1]

HasAtomicsRecord(f, i) ==
  \E k \in 1..Len(InstMD[f][i]) : InstMD[f][i][k].Section = "sanmd_atomics"

NoInstRecords(f) == \A i \in 1..Len(Mod[f].insts) : InstMD[f][i] = <<>>

InMIS(K) == \E k \in 1..Len(MIS) : MIS[k] = K

AtomicsBit(m) == BitAnd(m, kSanitizerBinaryMetadataAtomics) # 0
UARBit(m) == BitAnd(m, kSanitizerBinaryMetadataUAR) # 0

\* a callee the use-after-return analysis takes for safe
SafeCallee(c) ==
  /\ c.known
  /\ \/ c.isIntrinsic
     \/ c.doesNotReturn
     \/ \E p \in {PrefixAsan, PrefixHwsan, PrefixUbsan, PrefixMsan, PrefixTsan} :
          /\ Len(c.name) >= Len(p)
          /\ \A k \in 1..Len(p) : c.name[k] = p[k]

\* a use that does not let the address of the value escape
SafeUse(U) ==
  \/ U.kind \in {"lifetime", "droppable", "load"}
  \/ U.kind = "store" /\ U.ptrIsV
  \/ U.kind = "call" /\ SafeCallee(U.callee)

RECURSIVE ReachableUses(_)
\* the uses reachable from a user list through getelementptr and bitcast
ReachableUses(users) ==
  {users[k] : k \in 1..Len(users)}
  \cup UNION {ReachableUses(users[k].users) :
                k \in {j \in 1..Len(users) :
                         users[j].kind \in {"getelementptr", "bitcast"}}}

EscapingUse(users) ==
  \E U \in ReachableUses(users) :
    U.kind \notin {"getelementptr", "bitcast"} /\ ~SafeUse(U)

\* instruction I is use-after-return unsafe, in the words of the analysis
UnsafeInst(I) ==
  \/ I.op = "alloca" /\ EscapingUse(I.users)
  \/ I.op = "call" /\ I.tail /\ ~SafeCallee(I.callee)

\* instruction I is an atomic memory access of more than single-thread scope
AtomicInst(I) == I.mayRW /\ I.ssid \notin {"none", "singlethread"}

----------------------------------------------------------------------------
(* C1 *)

\* C1 as stated: with Coverage off, a processed function none of whose
\* instructions got a record or is use-after-return unsafe gets no Coverage
\* record and adds no kind to the kind set, whatever Atomics and UAR are.
C1_NothingEmitted ==
  (/\ Done(1) /\ Processed(1)
   /\ ~Options.Covered
   /\ NoInstRecords(1)
   /\ \A i \in 1..Len(Mod[1].insts) : ~UnsafeInst(Mod[1].insts[i]))
  => (FuncMD[1] = <<>> /\ MIS = <<>>)

\* C1 amended: the same, for a function that moreover has no instruction
\* that may read or write memory when Atomics is on; then the function gets
\* no Coverage record and adds no kind to the kind set.
C1_NothingEmittedWithoutMemory ==
  (/\ Done(1) /\ Processed(1)
   /\ ~Options.Covered
   /\ NoInstRecords(1)
   /\ \A i \in 1..Len(Mod[1].insts) : ~UnsafeInst(Mod[1].insts[i])
   /\ Options.Atomics => \A i \in 1..Len(Mod[1].insts) : ~Mod[1].insts[i].mayRW)
  => (FuncMD[1] = <<>> /\ MIS = <<>>)

C1_Witness ==
  /\ Done(1) /\ Processed(1)
  /\ ~Options.Covered /\ Options.Atomics /\ Options.UAR
  /\ Len(Mod[1].insts) = 2
  /\ Mod[1].insts[1].op = "alloca"
  /\ Mod[1].insts[2].op = "ret"
  /\ ~UnsafeInst(Mod[1].insts[1])
  /\ FuncMD[1] = <<>> /\ MIS = <<>>

----------------------------------------------------------------------------
(* C2 *)

\* C2: with Atomics on, every atomic memory instruction of more than
\* single-thread scope of a processed function gets an Atomics record; once
\* the scan has passed it the running mask has the Atomics bit and coverage
\* is required; and the function ends with a Coverage record whose mask has
\* the Atomics bit, wherever the instruction sits and whatever the UAR bit.
C2_AtomicsRecorded ==
  Options.Atomics =>
    \A i \in 1..Len(Mod[1].insts) :
      AtomicInst(Mod[1].insts[i]) /\ Processed(1) =>
        /\ (pc \in {"scan", "aggregate"} /\ fi = 1 /\ ii > i) =>
             /\ HasAtomicsRecord(1, i)
             /\ AtomicsBit(FeatureMask)
             /\ RequiresCovered
             /\ InMIS(Atomics)
        /\ Done(1) =>
             /\ HasAtomicsRecord(1, i)
             /\ HasCoverageRecord(1)
             /\ AtomicsBit(CoverageMask(1))
             /\ InMIS(Atomics) /\ InMIS(Covered)

C2_Witness ==
  /\ Done(1) /\ Processed(1)
  /\ Options.Atomics /\ Options.UAR
  /\ Len(Mod[1].insts) = 2
  /\ UnsafeInst(Mod[1].insts[1])
  /\ AtomicInst(Mod[1].insts[2])
  /\ HasAtomicsRecord(1, 2)
  /\ HasCoverageRecord(1)
  /\ CoverageMask(1) = kSanitizerBinaryMetadataAtomics + kSanitizerBinaryMetadataUAR

----------------------------------------------------------------------------
(* C3 *)

\* the address of the alloca I is stored into another location
AddressStored(I) ==
  /\ I.op = "alloca"
  /\ \E k \in 1..Len(I.users) :
       I.users[k].kind = "store" /\ I.users[k].valIsV /\ ~I.users[k].ptrIsV

OnlyUAR == Options.UAR /\ ~Options.Atomics /\ ~Options.Covered

\* what C3 promises of function 1
C3_Promise ==
  /\ HasCoverageRecord(1)
  /\ UARBit(CoverageMask(1))
  /\ InMIS(Covered)
  /\ OnlyUAR =>
       /\ CoverageMask(1) = kSanitizerBinaryMetadataUAR
       /\ NoInstRecords(1)
       /\ ~InMIS(Atomics)

\* C3 as stated: with UAR on, any processed function holding an alloca whose
\* address is stored into another location ends with a Coverage record whose
\* mask has the UAR bit; with only UAR on the mask is exactly the UAR bit
\* and nothing of Atomics is produced.
C3_StoredAddress ==
  (/\ Options.UAR /\ Done(1) /\ Processed(1)
   /\ \E i \in 1..Len(Mod[1].insts) : AddressStored(Mod[1].insts[i]))
  => C3_Promise

\* C3 amended: the same, for processed functions that do not accept a
\* variable number of arguments.
C3_StoredAddressNotVarArg ==
  (/\ Options.UAR /\ Done(1) /\ Processed(1)
   /\ ~Mod[1].isVarArg
   /\ \E i \in 1..Len(Mod[1].insts) : AddressStored(Mod[1].insts[i]))
  => C3_Promise

C3_Witness ==
  /\ OnlyUAR /\ Done(1) /\ Processed(1)
  /\ ~Mod[1].isVarArg
  /\ Len(Mod[1].insts) = 2
  /\ AddressStored(Mod[1].insts[2])
  /\ HasCoverageRecord(1)
  /\ CoverageMask(1) = kSanitizerBinaryMetadataUAR

----------------------------------------------------------------------------
(* C4 *)

\* C4: a processed function accepting a variable number of arguments never
\* has the UAR bit in the mask of its Coverage record, and it gets a Coverage
\* record only if Coverage is on or Atomics is on and some instruction may
\* access memory: its unsafe instructions alone do not require coverage.
C4_VarArgNoUAR ==
  (Done(1) /\ Processed(1) /\ Mod[1].isVarArg) =>
    /\ FuncMD[1] # <<>> => (HasCoverageRecord(1) /\ ~UARBit(CoverageMask(1)))
    /\ FuncMD[1] # <<>> =>
         \/ Options.Covered
         \/ Options.Atomics /\ \E i \in 1..Len(Mod[1].insts) : Mod[1].insts[i].mayRW
    /\ ~UARBit(FeatureMask)

C4_Witness ==
  /\ Done(1) /\ Processed(1) /\ Mod[1].isVarArg
  /\ Options.UAR /\ Options.Covered /\ ~Options.Atomics
  /\ \E i \in 1..Len(Mod[1].insts) : Mod[1].insts[i].op = "alloca" /\ UnsafeInst(Mod[1].insts[i])
  /\ \E i \in 1..Len(Mod[1].insts) : Mod[1].insts[i].op = "call" /\ UnsafeInst(Mod[1].insts[i])
  /\ HasCoverageRecord(1)
  /\ CoverageMask(1) = 0

----------------------------------------------------------------------------
(* C5 *)

\* C5: the scan sets the UAR bit for an alloca exactly when some use
\* reachable from it, directly or through getelementptr and bitcast users to
\* any depth, is none of: a lifetime marker, a droppable use, a load, a store
\* to the value walked, a call of an intrinsic, no-return or
\* sanitizer-prefixed function.
C5_UnsafeIffEscapingUse ==
  (/\ pc = "aggregate" /\ fi = 1
   /\ Options.UAR
   /\ Len(Mod[1].insts) = 1
   /\ Mod[1].insts[1].op = "alloca")
  => (UARBit(FeatureMask) <=> EscapingUse(Mod[1].insts[1].users))

\* an unsafe use at depth three, behind two safe uses
C5_Witness ==
  /\ pc = "aggregate" /\ fi = 1
  /\ Options.UAR
  /\ Len(Mod[1].insts) = 1
  /\ Mod[1].insts[1].op = "alloca"
  /\ Len(Mod[1].insts[1].users) = 1
  /\ Mod[1].insts[1].users[1].kind = "getelementptr"
  /\ Len(Mod[1].insts[1].users[1].users) = 1
  /\ Mod[1].insts[1].users[1].users[1].kind = "bitcast"
  /\ Len(Mod[1].insts[1].users[1].users[1].users) = 1
  /\ Mod[1].insts[1].users[1].users[1].users[1] = StoreVal
  /\ UARBit(FeatureMask)

----------------------------------------------------------------------------
(* C6 *)

NothingEmitted ==
  /\ Markers = <<>>
  /\ Created = <<>>
  /\ VersionConst = <<>>
  /\ GlobalCtors = <<>>
  /\ GlobalDtors = <<>>

\* function f is a declaration, is available externally or got no metadata
YieldsNothing(f) ==
  \/ Mod[f].insts = <<>>
  \/ Mod[f].linkage = "available_externally"
  \/ FuncMD[f] = <<>> /\ NoInstRecords(f)

\* C6: when run() has returned: it reported a change exactly when the kind
\* set is not empty; having reported no change it created no section marker,
\* no registration function, no version constant and no global constructor
\* or destructor entry; and it reports no change when Coverage is off and
\* every function is a declaration, available externally or without metadata.
C6_EmptinessShortCircuit ==
  pc = "done" =>
    /\ Result = "changed" <=> MIS # <<>>
    /\ Result = "unchanged" <=> MIS = <<>>
    /\ Result = "unchanged" => NothingEmitted
    /\ (~Options.Covered /\ \A f \in 1..Len(Mod) : YieldsNothing(f))
         => Result = "unchanged"

\* two functions with bodies, scanned, and nothing to emit
C6_Witness ==
  /\ pc = "done"
  /\ Result = "unchanged"
  /\ ~Options.Covered /\ Options.Atomics /\ Options.UAR
  /\ Len(Mod) = 2
  /\ Processed(1) /\ Mod[2].linkage = "available_externally"
  /\ NothingEmitted

----------------------------------------------------------------------------
(* C7 *)

\* the kinds of the catalogue
Kinds == {Covered, Atomics}

\* C7 as stated: when run() has returned, every kind whose bit is in the mask
\* of a Coverage record and every kind an instruction record lists is in the
\* kind set.
C7_RecordsWithinKindSet ==
  pc = "done" =>
    \A f \in 1..Len(Mod) :
      /\ FuncMD[f] # <<>> =>
           \A K \in Kinds :
             BitAnd(CoverageMask(f), K.FeatureMask) # 0 => InMIS(K)
      /\ \A i \in 1..Len(Mod[f].insts) :
           \A k \in 1..Len(InstMD[f][i]) :
             \E K \in Kinds : K.SectionSuffix = InstMD[f][i][k].Section /\ InMIS(K)

HasEntry(list, name) ==
  \E k \in 1..Len(list) : list[k].fn = name /\ list[k].priority = kCtorDtorPriority

\* C7 amended: when run() has returned, every kind an instruction record
\* lists is in the kind set, Coverage is in the kind set when a function has
\* a Coverage record, and every kind of the set has its registration and
\* deregistration entry; the Atomics bit of a Coverage mask says that the
\* Atomics option is on, not that Atomics is in the kind set.
C7_EmittedKindsWithinKindSet ==
  pc = "done" =>
    /\ \A f \in 1..Len(Mod) :
         /\ FuncMD[f] # <<>> =>
              /\ HasCoverageRecord(f)
              /\ InMIS(Covered)
              /\ AtomicsBit(CoverageMask(f)) => Options.Atomics
         /\ \A i \in 1..Len(Mod[f].insts) :
              \A k \in 1..Len(InstMD[f][i]) :
                \E K \in Kinds : K.SectionSuffix = InstMD[f][i][k].Section /\ InMIS(K)
    /\ \A K \in Kinds :
         InMIS(K) =>
           /\ HasEntry(GlobalCtors, K.FunctionPrefix \o ".module_ctor")
           /\ HasEntry(GlobalDtors, K.FunctionPrefix \o ".module_dtor")

\* a Coverage record in the first function, an Atomics record in the second
C7_Witness ==
  /\ pc = "done"
  /\ Len(Mod) = 2
  /\ HasCoverageRecord(1) /\ NoInstRecords(1)
  /\ Len(Mod[2].insts) = 1
  /\ HasAtomicsRecord(2, 1)
  /\ MIS = <<Covered, Atomics>>

----------------------------------------------------------------------------
(* C8 *)

\* the module of the scenario: one function, one atomic load of system
\* scope, only Atomics enabled
C8_Scenario ==
  /\ Options = [Covered |-> FALSE, Atomics |-> TRUE, UAR |-> FALSE]
  /\ Mod = <<Function(FALSE, "external", FALSE, <<Load("system")>>)>>
  /\ pc = "done"

C8_Records ==
  /\ InstMD[1][1] = <<[Section |-> "sanmd_atomics", Aux |-> <<>>]>>
  /\ FuncMD[1] = <<[Section |-> "sanmd_covered", Aux |-> <<kSanitizerBinaryMetadataAtomics>>]>>

Names(list) == [k \in 1..Len(list) |-> list[k].name]
Fns(list) == [k \in 1..Len(list) |-> list[k].fn]

\* C8 as stated: in the scenario the load has an Atomics record without
\* payload, the function a Coverage record with the Atomics bit as its mask,
\* and the module one registration/deregistration pair, that of Atomics, and
\* no markers, constructor or destructor of Coverage.
C8_OnePairForAtomics ==
  C8_Scenario =>
    /\ C8_Records
    /\ Fns(GlobalCtors) = <<"__sanitizer_metadata_atomics.module_ctor">>
    /\ Fns(GlobalDtors) = <<"__sanitizer_metadata_atomics.module_dtor">>
    /\ Names(Markers) = <<"__start_sanmd_atomics", "__stop_sanmd_atomics">>

\* C8 amended: in the scenario the records are as stated, and the module has
\* two registration/deregistration pairs, that of Atomics and then that of
\* Coverage, each with its two section markers.
C8_PairsForAtomicsAndCoverage ==
  C8_Scenario =>
    /\ C8_Records
    /\ Result = "changed"
    /\ Fns(GlobalCtors) = <<"__sanitizer_metadata_atomics.module_ctor",
                            "__sanitizer_metadata_covered.module_ctor">>
    /\ Fns(GlobalDtors) = <<"__sanitizer_metadata_atomics.module_dtor",
                            "__sanitizer_metadata_covered.module_dtor">>
    /\ Names(Markers) = <<"__start_sanmd_atomics", "__stop_sanmd_atomics",
                          "__start_sanmd_covered", "__stop_sanmd_covered">>
    /\ Names(Created) = <<"__sanitizer_metadata_atomics.module_ctor",
                          "__sanitizer_metadata_atomics.module_dtor",
                          "__sanitizer_metadata_covered.module_ctor",
                          "__sanitizer_metadata_covered.module_dtor">>

C8_Witness == C8_Scenario /\ C8_Records /\ Len(GlobalCtors) = 2

----------------------------------------------------------------------------
(* C9 *)

\* what C9 promises of function 1
C9_Promise ==
  /\ NoInstRecords(1)
  /\ FuncMD[1] # <<>> <=> Options.Covered
  /\ FuncMD[1] # <<>> => (HasCoverageRecord(1) /\ CoverageMask(1) = 0)

\* C9 as stated: with Atomics and UAR off, every function with a body gets
\* no instruction record, and gets a Coverage record exactly when Coverage
\* is on, its payload then being the zero mask.
C9_CoverageIffRequested ==
  (/\ Done(1)
   /\ Mod[1].insts # <<>>
   /\ ~Options.Atomics /\ ~Options.UAR)
  => C9_Promise

\* C9 amended: the same, for the functions with a body that are neither
\* marked to disable sanitizer instrumentation nor available externally.
C9_CoverageIffRequestedProcessed ==
  (/\ Done(1)
   /\ Processed(1)
   /\ ~Options.Atomics /\ ~Options.UAR)
  => C9_Promise

\* an atomic load and an unsafe tail call, and only Coverage on
C9_Witness ==
  /\ Done(1) /\ Processed(1)
  /\ Options = [Covered |-> TRUE, Atomics |-> FALSE, UAR |-> FALSE]
  /\ Len(Mod[1].insts) = 2
  /\ AtomicInst(Mod[1].insts[1])
  /\ UnsafeInst(Mod[1].insts[2])
  /\ NoInstRecords(1)
  /\ HasCoverageRecord(1) /\ CoverageMask(1) = 0

----------------------------------------------------------------------------
(* C10 *)

\* C10: with UAR on, in every step of the scan: a tail call whose callee is
\* not safe leaves the UAR bit set in the running mask; a call that is not a
\* tail call, or whose callee is safe, leaves the mask as it was; and a mask
\* with the UAR bit set keeps it, unchanged, whatever the instruction.
C10_TailCallsSetUAR ==
  [][(pc = "scan" /\ Options.UAR) =>
       LET I == Mod[fi].insts[ii]
       IN /\ (I.op = "call" /\ I.tail /\ ~SafeCallee(I.callee))
               => UARBit(FeatureMask')
          /\ (I.op = "call" /\ (~I.tail \/ SafeCallee(I.callee)))
               => FeatureMask' = FeatureMask
          /\ UARBit(FeatureMask)
               => (FeatureMask' = FeatureMask /\ pc' \in {"scan", "aggregate"})]_vars

\* an indirect tail call has set the bit, and an unsafe alloca comes next
C10_Witness ==
  /\ pc = "scan" /\ fi = 1 /\ ii = 2
  /\ Options.UAR /\ ~Options.Atomics
  /\ Mod[1].insts[1].op = "call"
  /\ Mod[1].insts[1].tail
  /\ ~Mod[1].insts[1].callee.known
  /\ UnsafeInst(Mod[1].insts[2])
  /\ FeatureMask = kSanitizerBinaryMetadataUAR

====
